---------------------------- MODULE Spec2Model ----------------------------
(***************************************************************************)
(* A model of src/src/App.tsx (toranorium): the rule-based directive       *)
(* compiler planSceneFromTextMock, the clamp pass of applyPrompt, the      *)
(* instance layout and per-frame motion of FloatingObjects, the scale of   *)
(* TowerModel and the App component's state.                               *)
(*                                                                         *)
(* Conventions.  A text is a sequence of one-character strings.  A real    *)
(* field of an ObjectSpec (size, radius, metalness, roughness) is held in  *)
(* hundredths (0.06 is 6, 1.2 is 120).  An optional field that is missing  *)
(* is absent from the record's DOMAIN.  A JavaScript number that may be    *)
(* NaN is a record [nan, v].                                               *)
(***************************************************************************)
EXTENDS Integers, Sequences, FiniteSets, TLC

VARIABLES
    mode,        \* App: useState "web" | "ar"
    prompt,      \* App: useState, the text of the input box
    plan,        \* App: useState, the ScenePlan's objects
    planOrigin,  \* which function's result was last handed to useState/setPlan
    status,      \* App: useState, the status text
    timers,      \* number of pending setTimeout callbacks of applyPrompt
    scene,       \* the rendered FloatingObjects of SharedScene, one per plan entry
    now,         \* performance.now(), in milliseconds
    pc,          \* position of a single call of one function under study
    input,       \* that call's argument
    output       \* that call's result

vars == <<mode, prompt, plan, planOrigin, status, timers, scene, now, pc, input, output>>

-----------------------------------------------------------------------------
(* Texts *)

Digits == {"0", "1", "2", "3", "4", "5", "6", "7", "8", "9"}

\* the characters the regular expression's \s matches, among those of the texts
Whitespace == {" "}

DigitValue(c) ==
    CASE c = "0" -> 0 [] c = "1" -> 1 [] c = "2" -> 2 [] c = "3" -> 3
      [] c = "4" -> 4 [] c = "5" -> 5 [] c = "6" -> 6 [] c = "7" -> 7
      [] c = "8" -> 8 [] c = "9" -> 9

UpperCase == <<"A","B","C","D","E","F","G","H","I","J","K","L","M",
               "N","O","P","Q","R","S","T","U","V","W","X","Y","Z">>

LowerCase == <<"a","b","c","d","e","f","g","h","i","j","k","l","m",
               "n","o","p","q","r","s","t","u","v","w","x","y","z">>

toLowerCase(s) ==
    [p \in 1..Len(s) |->
        IF \E k \in 1..26 : UpperCase[k] = s[p]
        THEN LowerCase[CHOOSE k \in 1..26 : UpperCase[k] = s[p]]
        ELSE s[p]]

\* the literal lit stands in s at position p
IsAt(s, p, lit) ==
    /\ p >= 1
    /\ p + Len(lit) - 1 <= Len(s)
    /\ \A k \in 1..Len(lit) : s[p + k - 1] = lit[k]

\* String.prototype.includes
includes(s, kw) == \E p \in 1..Len(s) : IsAt(s, p, kw)

\* the last position of the longest run of characters of class cls that starts at p
RunEnd(s, p, cls) ==
    CHOOSE q \in p..Len(s) :
        /\ \A k \in p..q : s[k] \in cls
        /\ (q = Len(s) \/ s[q + 1] \notin cls)

\* the alternative (\d+)\s+kw matches at position p
NumberThenKeyword(s, p, kw) ==
    /\ s[p] \in Digits
    /\ LET q == RunEnd(s, p, Digits)
       IN /\ q + 1 <= Len(s)
          /\ s[q + 1] \in Whitespace
          /\ IsAt(s, RunEnd(s, q + 1, Whitespace) + 1, kw)

Min(S) == CHOOSE x \in S : \A y \in S : x <= y

\* s.match(new RegExp(`(\\d+)\\s+${kw1}|${kw2}`)): in the pattern the alternation
\* binds loosest, so the alternatives are (\d+)\s+kw1 and the bare kw2.  The match is
\* the leftmost one; at one position the first alternative is tried first.  The
\* group is <<>> when the match did not go through (\d+).
RegExpMatch(s, kw1, kw2) ==
    LET ps == {p \in 1..Len(s) : NumberThenKeyword(s, p, kw1) \/ IsAt(s, p, kw2)}
    IN IF ps = {}
       THEN [matched |-> FALSE, group |-> <<>>]
       ELSE LET p == Min(ps)
            IN IF NumberThenKeyword(s, p, kw1)
               THEN [matched |-> TRUE, group |-> SubSeq(s, p, RunEnd(s, p, Digits))]
               ELSE [matched |-> TRUE, group |-> <<>>]

NaN == [nan |-> TRUE, v |-> 0]

Number(n) == [nan |-> FALSE, v |-> n]

RECURSIVE DecimalValue(_)
DecimalValue(ds) ==
    IF Len(ds) = 0 THEN 0
    ELSE DecimalValue(SubSeq(ds, 1, Len(ds) - 1)) * 10 + DigitValue(ds[Len(ds)])

\* parseInt(m[1], 10); m[1] is undefined when the group did not take part
parseInt(group) == IF Len(group) = 0 THEN NaN ELSE Number(DecimalValue(group))

\* Math.min(x, c) of a number that may be NaN and a constant
MathMin(x, c) == IF x.nan THEN NaN ELSE Number(IF x.v < c THEN x.v ELSE c)

\* x || alt
OrElse(x, alt) == IF ~x.nan /\ x.v # 0 THEN x.v ELSE alt

-----------------------------------------------------------------------------
(* Keywords of the compiler *)

K_sphere == <<"s","p","h","e","r","e">>
K_spheres == <<"s","p","h","e","r","e","s">>
K_box == <<"b","o","x">>
K_boxes == <<"b","o","x","e","s">>
K_torus == <<"t","o","r","u","s">>
K_tori == <<"t","o","r","i">>
K_icosa == <<"i","c","o","s","a">>
K_icosahedra == <<"i","c","o","s","a","h","e","d","r","a">>
K_red == <<"r","e","d">>
K_blue == <<"b","l","u","e">>
K_gold == <<"g","o","l","d">>
K_metal == <<"m","e","t","a","l">>
K_toon == <<"t","o","o","n">>
K_orbit == <<"o","r","b","i","t">>
K_float == <<"f","l","o","a","t">>
K_close == <<"c","l","o","s","e">>

MaxCount == 200

-----------------------------------------------------------------------------
(* planSceneFromTextMock *)

pick(lower, kw1, kw2) ==
    LET m == RegExpMatch(lower, kw1, kw2)
    IN IF m.matched THEN MathMin(parseInt(m.group), MaxCount) ELSE Number(0)

has(lower, kw) == includes(lower, kw)

SphereEntry(lower, n) ==
    [shape |-> "sphere", count |-> n,
     color |-> IF has(lower, K_red) THEN "tomato"
               ELSE IF has(lower, K_blue) THEN "skyblue" ELSE "#9cf",
     material |-> IF has(lower, K_metal) THEN "standard" ELSE "standard",
     metalness |-> IF has(lower, K_metal) THEN 90 ELSE 20,
     roughness |-> IF has(lower, K_metal) THEN 10 ELSE 60,
     motion |-> IF has(lower, K_orbit) THEN "orbit"
                ELSE IF has(lower, K_float) THEN "float" ELSE "none",
     size |-> 6,
     radius |-> IF has(lower, K_close) THEN 50 ELSE 120]

BoxEntry(lower, n) ==
    [shape |-> "box", count |-> n,
     color |-> IF has(lower, K_blue) THEN "deepskyblue" ELSE "#ff9",
     material |-> IF has(lower, K_toon) THEN "toon" ELSE "standard",
     metalness |-> 10, roughness |-> 80,
     motion |-> IF has(lower, K_float) THEN "float" ELSE "orbit",
     size |-> 8, radius |-> 100]

TorusEntry(lower, n) ==
    [shape |-> "torus", count |-> n,
     color |-> IF has(lower, K_gold) THEN "#d4af37" ELSE "#faf",
     material |-> "standard",
     metalness |-> IF has(lower, K_gold) THEN 100 ELSE 50,
     roughness |-> IF has(lower, K_gold) THEN 20 ELSE 50,
     motion |-> "orbit", size |-> 12, radius |-> 140]

IcosaEntry(n) ==
    [shape |-> "icosa", count |-> n, color |-> "#aaf", material |-> "standard",
     metalness |-> 20, roughness |-> 70, motion |-> "float",
     size |-> 9, radius |-> 90]

DefaultEntry ==
    [shape |-> "sphere", count |-> 10, color |-> "#9cf", material |-> "standard",
     metalness |-> 20, roughness |-> 70, motion |-> "orbit",
     size |-> 6, radius |-> 120]

\* the entries pushed for the categories the text names, in the order of the code
CategoryEntries(text) ==
    LET lower == toLowerCase(text)
        spheres == OrElse(pick(lower, K_sphere, K_spheres),
                          IF has(lower, K_sphere) THEN 5 ELSE 0)
        boxes == OrElse(pick(lower, K_box, K_boxes),
                        IF has(lower, K_box) THEN 10 ELSE 0)
        torus == OrElse(pick(lower, K_torus, K_tori),
                        IF has(lower, K_torus) THEN 3 ELSE 0)
        icosa == OrElse(pick(lower, K_icosa, K_icosahedra),
                        IF has(lower, K_icosa) THEN 6 ELSE 0)
    IN (IF spheres # 0 THEN <<SphereEntry(lower, spheres)>> ELSE <<>>)
       \o (IF boxes # 0 THEN <<BoxEntry(lower, boxes)>> ELSE <<>>)
       \o (IF torus # 0 THEN <<TorusEntry(lower, torus)>> ELSE <<>>)
       \o (IF icosa # 0 THEN <<IcosaEntry(icosa)>> ELSE <<>>)

\* a slip: the fallback of an empty plan is left out
planSceneFromTextMock_NoFallback(text) == CategoryEntries(text)

planSceneFromTextMock(text) ==
    LET objects == CategoryEntries(text)
    IN IF Len(objects) = 0 THEN <<DefaultEntry>> ELSE objects

-----------------------------------------------------------------------------
(* Directives *)

InitialPrompt ==
    <<"2","0"," ","r","e","d"," ","s","p","h","e","r","e","s"," ",
      "o","r","b","i","t",","," ","5"," ","g","o","l","d"," ",
      "t","o","r","u","s",","," ","a","d","d"," ","1","0"," ",
      "b","l","u","e"," ","b","o","x","e","s"," ",
      "f","l","o","a","t","i","n","g">>

\* the words the directives are made of
Vocabulary ==
    { <<"7">>, <<"2","5","0">>,
      K_sphere, K_spheres, K_box, <<"B","o","x","e","s">>,
      K_torus, K_tori, K_icosa, K_icosahedra,
      K_red, K_gold, <<"f","l","o","a","t","i","n","g">> }

MaxWords == 3

RECURSIVE Join(_)
Join(ws) ==
    IF Len(ws) = 0 THEN <<>>
    ELSE IF Len(ws) = 1 THEN ws[1]
    ELSE ws[1] \o <<" ">> \o Join(Tail(ws))

\* directives that bring in the other keywords of the override tables
AttributeDirectives ==
    { Join(<<K_metal, K_spheres, K_close>>),
      Join(<<K_blue, K_sphere, K_float>>),
      Join(<<K_toon, K_boxes, K_orbit>>),
      Join(<<K_blue, K_torus>>) }

Directives ==
    {InitialPrompt}
    \cup AttributeDirectives
    \cup {Join(ws) : ws \in UNION {[1..k -> Vocabulary] : k \in 0..MaxWords}}

-----------------------------------------------------------------------------
(* The App before it is mounted, where single functions are called on their own *)

Unmounted ==
    /\ mode = "web"
    /\ prompt = <<>>
    /\ plan = <<>>
    /\ planOrigin = "none"
    /\ status = ""
    /\ timers = 0
    /\ scene = <<>>
    /\ now = 0

(* One call of planSceneFromTextMock on a directive *)

InitCompile ==
    /\ Unmounted
    /\ pc = "call"
    /\ input \in Directives
    /\ output = <<>>

Compile ==
    /\ pc = "call"
    /\ output' = planSceneFromTextMock(input)
    /\ pc' = "done"
    /\ UNCHANGED <<input, mode, prompt, plan, planOrigin, status, timers, scene, now>>

SpecCompile == InitCompile /\ [][Compile]_vars

-----------------------------------------------------------------------------
(* The clamp pass of applyPrompt *)

\* o.f ?? def
OrDefault(o, f, def) == IF f \in DOMAIN o THEN o[f] ELSE def

MathMax(x, y) == IF x > y THEN x ELSE y

\* a slip: the upper limit is left out
Clamp_NoUpper(x, lo, hi) == MathMax(x, lo)

\* Math.min(Math.max(x, lo), hi)
Clamp(x, lo, hi) == LET m == MathMax(x, lo) IN IF m < hi THEN m ELSE hi

ClampedFields == {"count", "size", "radius", "metalness", "roughness"}

validateEntry(o) ==
    [f \in DOMAIN o \cup ClampedFields |->
        CASE f = "count" -> Clamp(OrDefault(o, "count", 1), 1, MaxCount)
          [] f = "size" -> Clamp(OrDefault(o, "size", 6), 2, 40)
          [] f = "radius" -> Clamp(OrDefault(o, "radius", 120), 20, 500)
          [] f = "metalness" -> Clamp(OrDefault(o, "metalness", 20), 0, 100)
          [] f = "roughness" -> Clamp(OrDefault(o, "roughness", 70), 0, 100)
          [] OTHER -> o[f]]

\* plan.objects.forEach(...)
validate(objects) == [k \in 1..Len(objects) |-> validateEntry(objects[k])]

(* One run of the clamp pass on a plan of any origin: each numeric field is
   missing, below its range, at a limit, inside or above. *)

CountSamples == {-3, 0, 1, 57, MaxCount, MaxCount + 1, 5000}
SizeSamples == {-1, 0, 1, 2, 6, 40, 41}
RadiusSamples == {-5, 0, 19, 20, 120, 500, 501}
UnitSamples == {-1, 0, 50, 100, 101}

\* the records over the fields fs, each field drawn from its samples
RECURSIVE FieldChoices(_, _)
FieldChoices(samples, fs) ==
    IF fs = {} THEN {<<>>}
    ELSE LET f == CHOOSE g \in fs : TRUE
             rest == FieldChoices(samples, fs \ {f})
         IN rest \cup {[g \in DOMAIN r \cup {f} |-> IF g = f THEN v ELSE r[g]] :
                          r \in rest, v \in samples[f]}

ExternalEntries ==
    LET samples == [count |-> CountSamples, size |-> SizeSamples,
                    radius |-> RadiusSamples, metalness |-> UnitSamples,
                    roughness |-> UnitSamples]
    IN {[f \in DOMAIN r \cup {"shape", "motion"} |->
            IF f = "shape" THEN "box" ELSE IF f = "motion" THEN "float" ELSE r[f]] :
          r \in FieldChoices(samples, ClampedFields)}

\* entries with every numeric field missing, below its range or above it
CornerEntries ==
    { [shape |-> "torus"],
      [shape |-> "sphere", count |-> -3, size |-> -1, radius |-> -5,
       metalness |-> -1, roughness |-> -1, motion |-> "orbit"],
      [shape |-> "icosa", count |-> 5000, size |-> 41, radius |-> 501,
       metalness |-> 101, roughness |-> 101, motion |-> "none"] }

ExternalPlans ==
    {<<o>> : o \in ExternalEntries} \cup {<<o, p>> : o, p \in CornerEntries}

InitValidate ==
    /\ Unmounted
    /\ pc = "call"
    /\ input \in ExternalPlans
    /\ output = <<>>

Validate ==
    /\ pc = "call"
    /\ output' = validate(input)
    /\ pc' = "done"
    /\ UNCHANGED <<input, mode, prompt, plan, planOrigin, status, timers, scene, now>>

SpecValidate == InitValidate /\ [][Validate]_vars

-----------------------------------------------------------------------------
(* Rationals, for the quotients of the layout and of the scale *)

RECURSIVE GCD(_, _)
GCD(a, b) == IF b = 0 THEN a ELSE GCD(b, a % b)

\* n / d in lowest terms, d > 0
Ratio(n, d) == LET g == GCD(n, d) IN [num |-> n \div g, den |-> d \div g]

One == [num |-> 1, den |-> 1]

-----------------------------------------------------------------------------
(* The instance layout of FloatingObjects (the useMemo of instances).
   ang is (i + seed) / count, a number of turns (the code multiplies by 2 pi);
   y is given by the argument of its sine, i * 12.9898 + seed, in 1/10000;
   speed is in hundredths; r is in 1/10000. *)

LayoutItem(spec, seed, r, i) ==
    [ang |-> Ratio(i + seed, spec.count),
     y |-> i * 129898 + seed * 10000,
     speed |-> 40 + (i % 7) * 3,
     r |-> r * (90 + (i % 5) * 2)]

\* a slip: the radius is taken as it is, without the factor 0.9 + (i % 5) * 0.02
generateLayout_PlainRadius(spec, seed) ==
    LET r == MathMax(OrDefault(spec, "radius", 120), 20)
    IN [j \in 1..spec.count |-> [LayoutItem(spec, seed, r, j - 1) EXCEPT !.r = r * 100]]

generateLayout(spec, seed) ==
    LET r == MathMax(OrDefault(spec, "radius", 120), 20)
    IN [j \in 1..spec.count |-> LayoutItem(spec, seed, r, j - 1)]

MaxLayoutCount == 4
MaxSeed == 8

LayoutInputs ==
    {[spec |-> s, seed |-> sd] :
        s \in {[count |-> c] : c \in 1..MaxLayoutCount}
              \cup {[count |-> c, radius |-> r] :
                      c \in 1..MaxLayoutCount, r \in {5, 20, 120}},
        sd \in 0..MaxSeed}

InitLayout ==
    /\ Unmounted
    /\ pc = "call"
    /\ input \in LayoutInputs
    /\ output = <<>>

Layout ==
    /\ pc = "call"
    /\ output' = generateLayout(input.spec, input.seed)
    /\ pc' = "done"
    /\ UNCHANGED <<input, mode, prompt, plan, planOrigin, status, timers, scene, now>>

SpecLayout == InitLayout /\ [][Layout]_vars

-----------------------------------------------------------------------------
(* The scale of TowerModel.  Heights are in thousandths of a metre; sizeY is
   the y of Box3.getSize, which is never negative. *)

WebTowerHeight == 1200
ARTowerHeight == 665

\* a slip: the quotient is taken the other way round
towerScale_Inverted(loaded, sizeY, fitHeight) ==
    IF ~loaded THEN One
    ELSE Ratio(IF sizeY # 0 THEN sizeY ELSE 1000, fitHeight)

towerScale(loaded, sizeY, fitHeight) ==
    IF ~loaded THEN One
    ELSE LET h == IF sizeY # 0 THEN sizeY ELSE 1000   \* size.y || 1
         IN Ratio(fitHeight, h)

MaxSizeY == 30

InitScale ==
    /\ Unmounted
    /\ pc = "call"
    /\ input \in [loaded : BOOLEAN, sizeY : 0..MaxSizeY,
                  fitHeight : {WebTowerHeight, ARTowerHeight}]
    /\ output = <<>>

Scale ==
    /\ pc = "call"
    /\ output' = towerScale(input.loaded, input.sizeY, input.fitHeight)
    /\ pc' = "done"
    /\ UNCHANGED <<input, mode, prompt, plan, planOrigin, status, timers, scene, now>>

SpecScale == InitScale /\ [][Scale]_vars

-----------------------------------------------------------------------------
(* The per-frame callback of FloatingObjects (useFrame).
   A mesh's horizontal coordinate is a term: zero, or cos(a) * r or sin(a) * r
   with the angle a = turns * 2 pi + rad / 10^7 and r in 1/10000.  Its height is
   a term too: unset (zero), or sin(base / 10^4) mapped to the layout's y, plus,
   when bob is not empty, sin(now * 0.001 + i) * 0.1 for bob = <<now, i>>.
   Rotations are in 1/10000 radian; dt (seconds in the code) is in
   milliseconds. *)

ZeroAngle == [turns |-> Ratio(0, 1), rad |-> 0]

ZeroCoordinate == [fn |-> "zero", a |-> ZeroAngle, r |-> 0]

ZeroHeight == [set |-> FALSE, base |-> 0, bob |-> <<>>]

\* a mesh as React creates it: position and rotation are the origin
NewMesh ==
    [position |-> [x |-> ZeroCoordinate, y |-> ZeroHeight, z |-> ZeroCoordinate],
     rotation |-> [x |-> 0, y |-> 0, z |-> 0]]

\* it.ang + it.speed * performance.now() * 0.00015
OrbitAngle(it, t) == [turns |-> it.ang, rad |-> it.speed * t * 15]

\* a slip: the phase advances with the frame delta, not with the clock
FrameChild_DeltaPhase(spec, instances, i, obj, t, dt) ==
    IF i + 1 > Len(instances) THEN obj
    ELSE LET it == instances[i + 1]
             a == OrbitAngle(it, dt)
         IN [position |-> [x |-> [fn |-> "cos", a |-> a, r |-> it.r],
                           y |-> [set |-> TRUE, base |-> it.y, bob |-> <<>>],
                           z |-> [fn |-> "sin", a |-> a, r |-> it.r]],
             rotation |-> [obj.rotation EXCEPT !.y = @ + dt * 5]]

\* the body of children.forEach((child, i) => ...) for child i (from 0)
FrameChild(spec, instances, i, obj, t, dt) ==
    IF i + 1 > Len(instances) THEN obj                     \* if (!it) return
    ELSE LET it == instances[i + 1]
         IN IF OrDefault(spec, "motion", "undefined") = "orbit"
            THEN LET a == OrbitAngle(it, t)
                 IN [position |-> [x |-> [fn |-> "cos", a |-> a, r |-> it.r],
                                   y |-> [set |-> TRUE, base |-> it.y, bob |-> <<>>],
                                   z |-> [fn |-> "sin", a |-> a, r |-> it.r]],
                     rotation |-> [obj.rotation EXCEPT !.y = @ + dt * 5]]
            ELSE IF OrDefault(spec, "motion", "undefined") = "float"
            THEN [position |-> [obj.position EXCEPT
                                  !.y = [set |-> TRUE, base |-> it.y, bob |-> <<t, i>>]],
                  rotation |-> [obj.rotation EXCEPT !.x = @ + dt * 3, !.y = @ + dt * 2]]
            ELSE obj

\* one call of the callback of a mounted FloatingObjects at clock t
useFrame(fo, t, dt) ==
    [fo EXCEPT !.children =
        [j \in 1..Len(fo.children) |->
            FrameChild(fo.spec, fo.instances, j - 1, fo.children[j], t, dt)]]

-----------------------------------------------------------------------------
(* Rendering SharedScene: one FloatingObjects per plan entry, keyed by its
   index, with one mesh per instance, keyed by its index. *)

\* seed={i * 13 + 7}, i from 0
SeedOf(k) == (k - 1) * 13 + 7

\* the field as a dependency of useMemo: undefined is <<>>
Dep(o, f) == IF f \in DOMAIN o THEN <<o[f]>> ELSE <<>>

\* a slip: spec.count is left out of the dependencies
useMemoInstances_NoCountDep(prev, spec, seed) ==
    IF Dep(prev.spec, "radius") = Dep(spec, "radius") /\ prev.seed = seed
    THEN prev.instances
    ELSE generateLayout(spec, seed)

\* useMemo(() => ..., [spec.count, spec.radius, seed]) on a re-render
useMemoInstances(prev, spec, seed) ==
    IF /\ Dep(prev.spec, "count") = Dep(spec, "count")
       /\ Dep(prev.spec, "radius") = Dep(spec, "radius")
       /\ prev.seed = seed
    THEN prev.instances
    ELSE generateLayout(spec, seed)

\* the first render of a FloatingObjects
Mount(spec, seed) ==
    LET instances == generateLayout(spec, seed)
    IN [spec |-> spec, seed |-> seed, instances |-> instances,
        children |-> [i \in 1..Len(instances) |-> NewMesh]]

\* a re-render: the meshes whose key remains are kept as they are
Update(prev, spec, seed) ==
    LET instances == useMemoInstances(prev, spec, seed)
    IN [spec |-> spec, seed |-> seed, instances |-> instances,
        children |-> [i \in 1..Len(instances) |->
                        IF i <= Len(prev.children) THEN prev.children[i] ELSE NewMesh]]

\* plan.objects.map((spec, i) => <FloatingObjects key={i} .../>) over the tree old
Render(old, objects) ==
    [k \in 1..Len(objects) |->
        IF k <= Len(old) THEN Update(old[k], objects[k], SeedOf(k))
        ELSE Mount(objects[k], SeedOf(k))]

-----------------------------------------------------------------------------
(* The App *)

MaxNow == 3
MaxDt == 2
MaxTimers == 1

\* the texts typed into the input box
TypedDirectives ==
    { InitialPrompt,
      <<>>,
      Join(<<<<"2">>, K_spheres, <<"f","l","o","a","t","i","n","g">>>>),
      Join(<<<<"3">>, K_boxes>>) }

Init ==
    /\ mode = "web"
    /\ prompt = InitialPrompt
    /\ plan = planSceneFromTextMock(InitialPrompt)
    /\ planOrigin = "planSceneFromTextMock"
    /\ status = ""
    /\ timers = 0
    /\ scene = Render(<<>>, planSceneFromTextMock(InitialPrompt))
    /\ now = 0
    /\ pc = "idle"
    /\ input = <<>>
    /\ output = <<>>

\* onClick of the Web and AR buttons: the other viewer is mounted afresh
SetMode(m) ==
    /\ m # mode
    /\ mode' = m
    /\ scene' = Render(<<>>, plan)
    /\ UNCHANGED <<prompt, plan, planOrigin, status, timers, now, pc, input, output>>

\* onChange of the input box
SetPrompt(t) ==
    /\ t # prompt
    /\ prompt' = t
    /\ UNCHANGED <<mode, plan, planOrigin, status, timers, scene, now, pc, input, output>>

\* onClick of Apply, with the re-render its setPlan causes
applyPrompt ==
    /\ timers < MaxTimers
    /\ LET objects == validate(planSceneFromTextMock(prompt))
       IN /\ plan' = objects
          /\ scene' = Render(scene, objects)
    /\ planOrigin' = "validate"
    /\ status' = "Done"
    /\ timers' = timers + 1
    /\ UNCHANGED <<mode, prompt, now, pc, input, output>>

\* setTimeout(() => setStatus(""), 800)
StatusTimeout ==
    /\ timers > 0
    /\ timers' = timers - 1
    /\ status' = ""
    /\ UNCHANGED <<mode, prompt, plan, planOrigin, scene, now, pc, input, output>>

\* one rendered frame: every FloatingObjects' callback runs, dt after the last
Frame(dt) ==
    /\ now + dt <= MaxNow
    /\ now' = now + dt
    /\ scene' = [k \in 1..Len(scene) |-> useFrame(scene[k], now + dt, dt)]
    /\ UNCHANGED <<mode, prompt, plan, planOrigin, status, timers, pc, input, output>>

Next ==
    \/ \E m \in {"web", "ar"} : SetMode(m)
    \/ \E t \in TypedDirectives : SetPrompt(t)
    \/ applyPrompt
    \/ StatusTimeout
    \/ \E dt \in 1..MaxDt : Frame(dt)

Spec == Init /\ [][Next]_vars

-----------------------------------------------------------------------------
(* Two runs of one FloatingObjects, A and B, each with its own clock and its
   own sequence of frames: a frame comes adv milliseconds after the last one and
   is handed the delta dt, which the code reads from another clock. *)

MaxOrbitCount == 2

OrbitInputs ==
    {[spec |-> [DefaultEntry EXCEPT !.count = c, !.radius = r], seed |-> SeedOf(k)] :
        c \in 1..MaxOrbitCount, r \in {50, 120}, k \in 1..2}

InitOrbit ==
    /\ Unmounted
    /\ pc = "frames"
    /\ input \in OrbitInputs
    /\ output = [r \in {"A", "B"} |->
                    [t |-> 0, frames |-> 0, fo |-> Mount(input.spec, input.seed)]]

OrbitFrame(run, dt, adv) ==
    /\ pc = "frames"
    /\ output[run].t + adv <= MaxNow
    /\ output' = [output EXCEPT ![run] =
                    [t |-> @.t + adv, frames |-> @.frames + 1,
                     fo |-> useFrame(@.fo, @.t + adv, dt)]]
    /\ UNCHANGED <<pc, input, mode, prompt, plan, planOrigin, status, timers, scene, now>>

NextOrbit == \E run \in {"A", "B"}, dt \in 1..MaxDt, adv \in 1..MaxDt : OrbitFrame(run, dt, adv)

SpecOrbit == InitOrbit /\ [][NextOrbit]_vars

-----------------------------------------------------------------------------
(* Properties *)

EntriesOf(objects, shape) == {objects[k] : k \in {j \in 1..Len(objects) : objects[j].shape = shape}}

\* C1: the directive "20 red spheres orbit, 5 gold torus, add 10 blue boxes
\* floating" compiles to exactly three entries: sphere with count 20, color
\* tomato, motion orbit; box with count 10, color deepskyblue, motion float;
\* torus with count 5, color #d4af37, metalness 1, motion orbit.
C1_InitialDirectivePlan ==
    (pc = "done" /\ input = InitialPrompt) =>
        /\ Len(output) = 3
        /\ \E o \in EntriesOf(output, "sphere") :
              o.count = 20 /\ o.color = "tomato" /\ o.motion = "orbit"
        /\ \E o \in EntriesOf(output, "box") :
              o.count = 10 /\ o.color = "deepskyblue" /\ o.motion = "float"
        /\ \E o \in EntriesOf(output, "torus") :
              o.count = 5 /\ o.color = "#d4af37" /\ o.metalness = 100 /\ o.motion = "orbit"

Categories ==
    { [shape |-> "sphere", one |-> K_sphere, many |-> K_spheres, implicit |-> 5],
      [shape |-> "box", one |-> K_box, many |-> K_boxes, implicit |-> 10],
      [shape |-> "torus", one |-> K_torus, many |-> K_tori, implicit |-> 3],
      [shape |-> "icosa", one |-> K_icosa, many |-> K_icosahedra, implicit |-> 6] }

\* the numbers of s that are followed by whitespace and then kw
NumbersBefore(s, kw) ==
    {DecimalValue(SubSeq(s, p, RunEnd(s, p, Digits))) :
        p \in {q \in 1..Len(s) : /\ s[q] \in Digits
                                 /\ (q = 1 \/ s[q - 1] \notin Digits)
                                 /\ NumberThenKeyword(s, q, kw)}}

NamesCategory(s, c) == includes(s, c.one) \/ includes(s, c.many)

\* C2: in a directive that names a category, for each category: a number n >= 1
\* followed by whitespace and a keyword of the category, singular or plural, gives
\* the category's entry the count min(n, 200); a keyword without such a number
\* gives the implicit count; a category whose keywords do not appear is omitted.
C2_CountFollowsDirective ==
    LET s == toLowerCase(input) IN
    (pc = "done" /\ \E c \in Categories : NamesCategory(s, c)) =>
        \A c \in Categories :
            LET ns == {n \in NumbersBefore(s, c.one) \cup NumbersBefore(s, c.many) : n >= 1}
                counts == {o.count : o \in EntriesOf(output, c.shape)}
            IN IF ns # {}
               THEN \E n \in ns : counts = {IF n < 200 THEN n ELSE 200}
               ELSE IF NamesCategory(s, c) THEN counts = {c.implicit}
               ELSE counts = {}

\* C3: in every reachable state, the initial one included, the published plan
\* has passed through the clamp pass.
C3_PlanPassedValidation == planOrigin = "validate"

InRange(x, lo, hi) == lo <= x /\ x <= hi

\* C4: after the clamp pass every entry has 1 <= count <= 200,
\* 0.02 <= size <= 0.4, 0.2 <= radius <= 5.0, 0 <= metalness <= 1 and
\* 0 <= roughness <= 1, whatever was missing or out of range before.
C4_ClampInvariant ==
    pc = "done" =>
        /\ Len(output) = Len(input)
        /\ \A k \in 1..Len(output) :
              /\ ClampedFields \subseteq DOMAIN output[k]
              /\ InRange(output[k].count, 1, 200)
              /\ InRange(output[k].size, 2, 40)
              /\ InRange(output[k].radius, 20, 500)
              /\ InRange(output[k].metalness, 0, 100)
              /\ InRange(output[k].roughness, 0, 100)

\* a run on an entry with a missing field, a count above and a radius below the range
C4_Witness ==
    /\ pc = "done"
    /\ "size" \notin DOMAIN input[1]
    /\ "count" \in DOMAIN input[1] /\ input[1].count > 200
    /\ "radius" \in DOMAIN input[1] /\ input[1].radius < 20
    /\ output[1].size = 6

\* C5 as stated: the scale is desiredHeight / measuredHeight when measuredHeight > 0
\* and 1.0 otherwise.
C5_ScaleIdentityWhenDegenerate ==
    pc = "done" =>
        output = IF input.loaded /\ input.sizeY > 0
                 THEN Ratio(input.fitHeight, input.sizeY)
                 ELSE One

\* C5 amended: the scale is desiredHeight / measuredHeight when the model is loaded
\* and measuredHeight > 0; it is desiredHeight (the height is taken as 1) when the
\* model is loaded and measuredHeight is 0; it is 1.0 when the model is unavailable.
C5_ScaleDividesByOneWhenDegenerate ==
    pc = "done" =>
        output = IF ~input.loaded THEN One
                 ELSE IF input.sizeY > 0 THEN Ratio(input.fitHeight, input.sizeY)
                 ELSE Ratio(input.fitHeight, 1000)

\* a loaded model of height 0: the scale is the desired height, not 1.0
C5_Witness ==
    /\ pc = "done"
    /\ input.loaded
    /\ input.sizeY = 0
    /\ output # One

LayoutScenario == [spec |-> [count |-> 1, radius |-> 120], seed |-> 0]

\* C6 as stated: for count 1, radius 1.2 and seed 0 the layout has exactly one
\* entry, with angleOffset 0 and effectiveRadius 1.2.
C6_SingleInstanceRadiusIsSpecRadius ==
    (pc = "done" /\ input = LayoutScenario) =>
        /\ Len(output) = 1
        /\ output[1].ang.num = 0
        /\ output[1].r = 12000

\* C6 amended: for count 1, radius 1.2 and seed 0 the layout has exactly one
\* entry, with angleOffset 0 and effectiveRadius 1.08 (0.9 times the radius).
C6_SingleInstanceRadiusIsScaled ==
    (pc = "done" /\ input = LayoutScenario) =>
        /\ Len(output) = 1
        /\ output[1].ang.num = 0
        /\ output[1].r = 10800

C6_Witness == pc = "done" /\ input = LayoutScenario /\ Len(output) = 1

NoCategoryKeyword(s) == \A c \in Categories : ~NamesCategory(s, c)

\* C7: the compiled plan is never empty, and a text in which no category is
\* recognised compiles to the single default entry: sphere, count 10, color
\* #9cf, motion orbit.
C7_NonEmptyPlanWithDefault ==
    pc = "done" =>
        /\ Len(output) >= 1
        /\ NoCategoryKeyword(toLowerCase(input)) =>
              /\ Len(output) = 1
              /\ output[1].shape = "sphere"
              /\ output[1].count = 10
              /\ output[1].color = "#9cf"
              /\ output[1].motion = "orbit"

\* a text that is not empty and names no category
C7_Witness ==
    /\ pc = "done"
    /\ includes(input, K_red)
    /\ NoCategoryKeyword(toLowerCase(input))
    /\ Len(output) = 1

\* C8: of two runs that each evaluated a frame of an orbit entry at the same
\* clock time T, whatever their frames before, every instance has the same
\* position in both.
C8_OrbitPhaseStable ==
    (/\ pc = "frames"
     /\ input.spec.motion = "orbit"
     /\ output["A"].frames > 0 /\ output["B"].frames > 0
     /\ output["A"].t = output["B"].t) =>
        \A i \in 1..Len(output["A"].fo.children) :
            output["A"].fo.children[i].position = output["B"].fo.children[i].position

\* two runs at the same T after different numbers of frames, whose self-rotations differ
C8_Witness ==
    /\ pc = "frames"
    /\ output["A"].frames > 0 /\ output["B"].frames > 0
    /\ output["A"].frames # output["B"].frames
    /\ output["A"].t = output["B"].t
    /\ output["A"].fo.children[1].rotation # output["B"].fo.children[1].rotation
    /\ output["A"].fo.children[1].position = output["B"].fo.children[1].position

\* C9: whatever the interleaving of Apply and frames, the callback of each plan
\* entry finds a layout array with as many entries as the entry's count and as
\* there are rendered instances, for the entry the plan holds.
C9_ConsistentPlanAndLayout ==
    /\ Len(scene) = Len(plan)
    /\ \A k \in 1..Len(scene) :
          /\ scene[k].spec = plan[k]
          /\ Len(scene[k].instances) = scene[k].spec.count
          /\ Len(scene[k].children) = Len(scene[k].instances)

\* a frame of the float entry that an Apply put, with another count, where an
\* orbit entry was
C9_Witness ==
    /\ planOrigin = "validate"
    /\ scene[1].spec.motion = "float"
    /\ scene[1].spec.count = 2
    /\ Len(scene[1].children) = 2
    /\ scene[1].children[1].rotation.x > 0

\* C10: an instance of a float entry that a frame has moved stands, horizontally,
\* at its layout's nominal point (cos(angleOffset) * effectiveRadius,
\* sin(angleOffset) * effectiveRadius).
C10_FloatAtNominalPoint ==
    \A k \in 1..Len(scene) :
        scene[k].spec.motion = "float" =>
            \A i \in 1..Len(scene[k].children) :
                LET obj == scene[k].children[i]
                    it == scene[k].instances[i]
                    a == [turns |-> it.ang, rad |-> 0]
                IN obj.position.y.bob # <<>> =>
                      /\ obj.position.x = [fn |-> "cos", a |-> a, r |-> it.r]
                      /\ obj.position.z = [fn |-> "sin", a |-> a, r |-> it.r]

=============================================================================
